---- MODULE Spec2Model ----
(***************************************************************************)
(* Model of lightning-avl: an AVL tree (src/src/avl.rs) and three JIT      *)
(* compilers that turn a tree into x86-64 lookup code: jit::compile for    *)
(* i32 keys (src/src/jit.rs), compile_scalar and compile_sse for [u8; 16]  *)
(* keys (src/src/jit_sse.rs).  The emitted instruction stream is kept as   *)
(* data and executed by an interpreter of the instructions used.           *)
(***************************************************************************)
EXTENDS Integers, Sequences, FiniteSets, TLC

VARIABLES K, tree, shadow, art, arg, result

vars == <<K, tree, shadow, art, arg, result>>

(***************************************************************************)
(* Bounds of the model.                                                    *)
(***************************************************************************)
\* largest number of nodes a tree is grown to
MaxNodes == 6
\* instructions one call through an entry point may execute in the model
MaxSteps == 120

(***************************************************************************)
(* Keys and values.  An i32 key is an integer.  A [u8; 16] key is a tuple  *)
(* of 16 bytes in memory order.                                            *)
(***************************************************************************)
Z8 == <<0, 0, 0, 0, 0, 0, 0, 0>>
F8 == <<255, 255, 255, 255, 255, 255, 255, 255>>

\* A = fifteen zero bytes then 0x01, B = sixteen 0xFF bytes
KeyA == Z8 \o <<0, 0, 0, 0, 0, 0, 0, 1>>
KeyB == F8 \o F8
KeyZ == Z8 \o Z8
KeyD == <<1, 0, 0, 0, 0, 0, 0, 0>> \o Z8
KeyE == <<0, 1, 0, 0, 0, 0, 0, 0>> \o Z8
KeyG == Z8 \o <<127, 0, 0, 0, 0, 0, 0, 0>>
KeyX == <<2, 0, 0, 0, 0, 0, 0, 0>> \o Z8

Keys32 == {-7, 3, 5, 7, 8, 9}
Inputs32 == Keys32 \cup {6}
Keys128 == {KeyA, KeyB, KeyZ, KeyD, KeyE, KeyG}
Inputs128 == Keys128 \cup {KeyX}
Values == {10, 20}

KeyTypes == {"i32", "u8x16"}
KeysOf(kt) == IF kt = "i32" THEN Keys32 ELSE Keys128
InputsOf(kt) == IF kt = "i32" THEN Inputs32 ELSE Inputs128

(***************************************************************************)
(* Option<Box<Node>>: None is the empty tuple, Some(n) the 1-tuple <<n>>.  *)
(***************************************************************************)
None == <<>>
Some(n) == <<n>>
unwrap(link) == link[1]

\* K: Ord.  i32 orders as integers; [u8; 16] orders byte-wise
\* lexicographically (the array's derived Ord).
cmp(kt, a, b) ==
    IF kt = "i32"
    THEN IF a < b THEN "Less" ELSE IF a > b THEN "Greater" ELSE "Equal"
    ELSE LET d == {i \in 1..16 : a[i] # b[i]} IN
         IF d = {} THEN "Equal"
         ELSE LET i == CHOOSE j \in d : \A m \in d : j <= m IN
              IF a[i] < b[i] THEN "Less" ELSE "Greater"

max(a, b) == IF a >= b THEN a ELSE b

Node_new(key, value) ==
    [key |-> key, value |-> value, height |-> 1, left |-> None, right |-> None]

height(link) == IF link = None THEN 0 ELSE link[1].height

balance_factor(n) == height(n.left) - height(n.right)

update_height(n) == [n EXCEPT !.height = 1 + max(height(n.left), height(n.right))]

rotate_left(node) ==
    LET new_root == unwrap(node.right)
        node1 == update_height([node EXCEPT !.right = new_root.left])
    IN  Some(update_height([new_root EXCEPT !.left = Some(node1)]))

\* rotate_right keeping the wrong child of new_root under node
rotate_right_wrong_child(node) ==
    LET new_root == unwrap(node.left)
        node1 == update_height([node EXCEPT !.left = new_root.left])
    IN  Some(update_height([new_root EXCEPT !.right = Some(node1)]))

rotate_right(node) ==
    LET new_root == unwrap(node.left)
        node1 == update_height([node EXCEPT !.left = new_root.right])
    IN  Some(update_height([new_root EXCEPT !.right = Some(node1)]))

\* balance rotating only when the heights differ by more than 2
balance_lenient(node) ==
    LET b == balance_factor(node) IN
    IF b > 2
    THEN rotate_right(IF balance_factor(unwrap(node.left)) < 0
                      THEN [node EXCEPT !.left = rotate_left(unwrap(node.left))]
                      ELSE node)
    ELSE IF b < -2
    THEN rotate_left(IF balance_factor(unwrap(node.right)) > 0
                     THEN [node EXCEPT !.right = rotate_right(unwrap(node.right))]
                     ELSE node)
    ELSE Some(node)

balance(node) ==
    LET b == balance_factor(node) IN
    IF b > 1
    THEN rotate_right(IF balance_factor(unwrap(node.left)) < 0
                      THEN [node EXCEPT !.left = rotate_left(unwrap(node.left))]
                      ELSE node)
    ELSE IF b < -1
    THEN rotate_left(IF balance_factor(unwrap(node.right)) > 0
                     THEN [node EXCEPT !.right = rotate_right(unwrap(node.right))]
                     ELSE node)
    ELSE Some(node)

\* insert_rec leaving the value of a key already present as it was
RECURSIVE insert_rec_keep_old(_, _, _, _)
insert_rec_keep_old(kt, node, key, value) ==
    IF node = None THEN Some(Node_new(key, value))
    ELSE LET n == node[1]
             c == cmp(kt, key, n.key)
         IN  IF c = "Equal" THEN Some(n)
             ELSE LET n1 == IF c = "Less"
                            THEN [n EXCEPT !.left = insert_rec_keep_old(kt, n.left, key, value)]
                            ELSE [n EXCEPT !.right = insert_rec_keep_old(kt, n.right, key, value)]
                  IN  balance(update_height(n1))

RECURSIVE insert_rec(_, _, _, _)
insert_rec(kt, node, key, value) ==
    IF node = None THEN Some(Node_new(key, value))
    ELSE LET n == node[1]
             c == cmp(kt, key, n.key)
         IN  IF c = "Equal" THEN Some([n EXCEPT !.value = value])
             ELSE LET n1 == IF c = "Less"
                            THEN [n EXCEPT !.left = insert_rec(kt, n.left, key, value)]
                            ELSE [n EXCEPT !.right = insert_rec(kt, n.right, key, value)]
                  IN  balance(update_height(n1))

\* the nodes insert_rec(node, key, value) hands to balance: the node of every
\* level of the search path, with the key inserted below it and its height
\* updated
RECURSIVE BalanceCalls(_, _, _, _)
BalanceCalls(kt, node, key, value) ==
    IF node = None THEN {}
    ELSE LET n == node[1]
             c == cmp(kt, key, n.key)
         IN  IF c = "Equal" THEN {}
             ELSE IF c = "Less"
             THEN {update_height([n EXCEPT !.left = insert_rec(kt, n.left, key, value)])}
                  \cup BalanceCalls(kt, n.left, key, value)
             ELSE {update_height([n EXCEPT !.right = insert_rec(kt, n.right, key, value)])}
                  \cup BalanceCalls(kt, n.right, key, value)

\* every unwrap() that balance, rotate_left and rotate_right run on node
\* finds Some
UnwrapsSome(node) ==
    LET b == balance_factor(node) IN
    /\ b > 1 => /\ node.left # None
                /\ balance_factor(unwrap(node.left)) < 0 => unwrap(node.left).right # None
    /\ b < -1 => /\ node.right # None
                 /\ balance_factor(unwrap(node.right)) > 0 => unwrap(node.right).left # None

\* AvlTree::lookup: None is <<>>, Some(v) is <<v>>
RECURSIVE lookup(_, _, _)
lookup(kt, current, key) ==
    IF current = None THEN None
    ELSE LET node == current[1]
             c == cmp(kt, key, node.key)
         IN  IF c = "Less" THEN lookup(kt, node.left, key)
             ELSE IF c = "Greater" THEN lookup(kt, node.right, key)
             ELSE Some(node.value)

\* AvlTree::pre_order, as the sequence of nodes
RECURSIVE pre_order_rec(_)
pre_order_rec(link) ==
    IF link = None THEN <<>>
    ELSE <<link[1]>> \o pre_order_rec(link[1].left) \o pre_order_rec(link[1].right)

TreeKeys(link) == {pre_order_rec(link)[i].key : i \in 1..Len(pre_order_rec(link))}

(***************************************************************************)
(* 64-bit words.  A u64 is the tuple of its 8 base-256 digits, most        *)
(* significant first; an xmm register is the tuple of its 16 byte lanes,   *)
(* lane 0 first (memory order).                                            *)
(***************************************************************************)
\* u64::from_le_bytes, and the little-endian load mov r, QWORD [mem]
from_le_bytes(bs) == [i \in 1..8 |-> bs[9 - i]]
\* the byte lanes a 64-bit register value occupies in an xmm register
to_le_bytes(w) == [i \in 1..8 |-> w[9 - i]]

\* a < b as unsigned 64-bit integers
ult64(a, b) ==
    LET d == {i \in 1..8 : a[i] # b[i]} IN
    IF d = {} THEN FALSE
    ELSE LET i == CHOOSE j \in d : \A m \in d : j <= m IN a[i] < b[i]

\* a < b as signed (two's complement) 64-bit integers: what jl tests after
\* cmp a, b (SF # OF)
slt64(a, b) ==
    LET na == a[1] >= 128
        nb == b[1] >= 128
    IN  IF na # nb THEN na ELSE ult64(a, b)

(***************************************************************************)
(* dynasmrt::x64::Assembler as used by the compilers, together with the    *)
(* HashMap label table of one compilation pass.                            *)
(*   code    the instructions emitted so far (offset = number emitted)     *)
(*   nlabels dynamic labels handed out by new_dynamic_label                *)
(*   binds   <<label, offset>> for every =>label definition, in order      *)
(*   locals  <<name, offset>> for every local label definition (name:)     *)
(*   labels  the HashMap from node key to label                            *)
(*   log     <<key, label>> for every labels.entry(key) lookup, in order   *)
(*   stack   the pending calls of the recursive build function, innermost  *)
(*           first                                                         *)
(***************************************************************************)
Assembler_new ==
    [code |-> <<>>, nlabels |-> 0, binds |-> <<>>, locals |-> <<>>,
     labels |-> [x \in {} |-> 0], log |-> <<>>, stack |-> <<>>]

offset(st) == Len(st.code)

new_dynamic_label(st) ==
    [st |-> [st EXCEPT !.nlabels = @ + 1], label |-> st.nlabels]

\* a label table that hands out a fresh label on every lookup
label_entry_always_fresh(st, key) ==
    [st |-> [st EXCEPT !.nlabels = @ + 1,
                       !.labels = (key :> st.nlabels) @@ @,
                       !.log = Append(@, <<key, st.nlabels>>)],
     label |-> st.nlabels]

\* *labels.entry(key).or_insert_with(|| ops.new_dynamic_label())
label_entry(st, key) ==
    IF key \in DOMAIN st.labels
    THEN [st |-> [st EXCEPT !.log = Append(@, <<key, st.labels[key]>>)],
          label |-> st.labels[key]]
    ELSE [st |-> [st EXCEPT !.nlabels = @ + 1,
                            !.labels = (key :> st.nlabels) @@ @,
                            !.log = Append(@, <<key, st.nlabels>>)],
          label |-> st.nlabels]

\* the label a branch to a child goes to: the child's label from the table,
\* or not_found_label when the child is missing
child_label(st, child, not_found_label) ==
    IF child # None THEN label_entry(st, unwrap(child).key)
    ELSE [st |-> st, label |-> not_found_label]

\* The items of a dynasm! stream: an instruction, a dynamic label
\* definition (=>label) or a local label definition (name:).
Ins(op, a, b) == [op |-> op, a |-> a, b |-> b]
Def(label) == [op |-> "=>", a |-> label, b |-> "dyn"]
Local(name) == [op |-> "local:", a |-> name, b |-> "fwd"]

IsIns(x) == x.op \notin {"=>", "local:"}

\* the k-th item of the given kind, and the code offset it is placed at
ItemsOf(items, kind) == {i \in 1..Len(items) : items[i].op = kind}
NthOf(items, kind, k) ==
    CHOOSE i \in ItemsOf(items, kind) :
        Cardinality({j \in ItemsOf(items, kind) : j < i}) = k - 1
OffsetAt(st, items, i) ==
    offset(st) + Cardinality({j \in 1..(i - 1) : IsIns(items[j])})
Bound(st, items, kind) ==
    [k \in 1..Cardinality(ItemsOf(items, kind)) |->
        <<items[NthOf(items, kind, k)].a, OffsetAt(st, items, NthOf(items, kind, k))>>]

\* dynasm!(ops ; item ; item ...): instructions are appended to the buffer,
\* label definitions bind the label to the offset reached
dynasm(st, items) ==
    [st EXCEPT !.code = @ \o SelectSeq(items, IsIns),
               !.binds = @ \o Bound(st, items, "=>"),
               !.locals = @ \o Bound(st, items, "local:")]

Jumps == {"je", "jne", "jl", "jg", "jmp"}

\* the dynamic labels some branch refers to
Referenced(st) ==
    {st.code[i].a : i \in {j \in 1..Len(st.code) :
                              st.code[j].op \in Jumps /\ st.code[j].b = "dyn"}}

BindCount(st, label) == Cardinality({i \in 1..Len(st.binds) : st.binds[i][1] = label})

\* ops.finalize().unwrap(): every reference is resolved against the one
\* definition of its label; an undefined or twice defined label is an error
finalize(st) ==
    IF /\ \A l \in Referenced(st) : BindCount(st, l) = 1
       /\ \A l \in 0..(st.nlabels - 1) : BindCount(st, l) <= 1
       /\ \A j \in 1..Len(st.code) :
            (st.code[j].op \in Jumps /\ st.code[j].b = "fwd") =>
               \E i \in 1..Len(st.locals) :
                  st.locals[i][1] = st.code[j].a /\ st.locals[i][2] >= j
    THEN "ok" ELSE "panic"

\* The recursion of a build function, with its call stack explicit: a frame
\* is a call on a node still to run ("call") or the rest of a call that has
\* recursed into its children ("rest").
Frame(kind, node, label) == [kind |-> kind, node |-> node, label |-> label]

\* the recursive calls in the other order: right child, then left child
ChildCalls_right_first(node) ==
    (IF node.right # None THEN <<Frame("call", unwrap(node.right), 0)>> ELSE <<>>)
    \o (IF node.left # None THEN <<Frame("call", unwrap(node.left), 0)>> ELSE <<>>)

\* the recursive calls a build function makes: left child, then right child
ChildCalls(node) ==
    (IF node.left # None THEN <<Frame("call", unwrap(node.left), 0)>> ELSE <<>>)
    \o (IF node.right # None THEN <<Frame("call", unwrap(node.right), 0)>> ELSE <<>>)

(***************************************************************************)
(* jit.rs: the scalar (i32 key) strategy.                                  *)
(***************************************************************************)
\* =>found_label ; mov rax, node.value ; ret
found_block(node, found_label) ==
    <<Def(found_label), Ins("mov_rax_imm", node.value, 0), Ins("ret", 0, 0)>>

\* build_asm with the targets of jl and jg exchanged
build_asm_dispatch_swapped(st, node, not_found_label) ==
    LET e1 == label_entry(st, node.key)
        self_label == e1.label
        e2 == new_dynamic_label(e1.st)
        found_label == e2.label
        e3 == child_label(e2.st, node.left, not_found_label)
        e4 == child_label(e3.st, node.right, not_found_label)
        s5 == dynasm(e4.st, <<Def(self_label),
                              Ins("cmp_edi_imm", node.key, 0),
                              Ins("je", found_label, "dyn"),
                              Ins("jl", e4.label, "dyn"),
                              Ins("jg", e3.label, "dyn")>>)
    IN  [s5 EXCEPT !.stack = ChildCalls(node) \o <<Frame("rest", node, found_label)>> \o @]

\* build_asm up to its recursive calls: labels, =>self_label, cmp / je,
\* jl and jg; the calls on the children and the found epilogue are pending
build_asm_dispatch(st, node, not_found_label) ==
    LET e1 == label_entry(st, node.key)
        self_label == e1.label
        e2 == new_dynamic_label(e1.st)
        found_label == e2.label
        e3 == child_label(e2.st, node.left, not_found_label)
        e4 == child_label(e3.st, node.right, not_found_label)
        s5 == dynasm(e4.st, <<Def(self_label),
                              Ins("cmp_edi_imm", node.key, 0),
                              Ins("je", found_label, "dyn"),
                              Ins("jl", e3.label, "dyn"),
                              Ins("jg", e4.label, "dyn")>>)
    IN  [s5 EXCEPT !.stack = ChildCalls(node) \o <<Frame("rest", node, found_label)>> \o @]

\* build_asm after its recursive calls: the found epilogue
build_asm_found(st, node, found_label) == dynasm(st, found_block(node, found_label))

build_asm_step(st, not_found_label) ==
    LET f == Head(st.stack)
        s1 == [st EXCEPT !.stack = Tail(@)]
    IN  IF f.kind = "call" THEN build_asm_dispatch(s1, f.node, not_found_label)
        ELSE build_asm_found(s1, f.node, f.label)

RECURSIVE build_asm(_, _)
build_asm(st, not_found_label) ==
    IF st.stack = <<>> THEN st
    ELSE build_asm(build_asm_step(st, not_found_label), not_found_label)

\* =>not_found_label ; mov rax, -1 ; ret
not_found_block(not_found_label) ==
    <<Def(not_found_label), Ins("mov_rax_imm", -1, 0), Ins("ret", 0, 0)>>

\* what a compile function returns: the finalized buffer and the entry offset
Artifact(st, start, not_found_label) ==
    [code |-> st.code, start |-> start, binds |-> st.binds, locals |-> st.locals,
     nlabels |-> st.nlabels, labels |-> st.labels, log |-> st.log,
     not_found_label |-> not_found_label, status |-> finalize(st)]

RootCall(st, root) ==
    IF root # None THEN [st EXCEPT !.stack = <<Frame("call", unwrap(root), 0)>>] ELSE st

compile(root) ==
    LET ops == Assembler_new
        start == offset(ops)
        e == new_dynamic_label(ops)
        not_found_label == e.label
        s1 == build_asm(RootCall(e.st, root), not_found_label)
        s2 == dynasm(s1, not_found_block(not_found_label))
    IN  Artifact(s2, start, not_found_label)

(***************************************************************************)
(* jit_sse.rs: the two-limb strategy for [u8; 16] keys.                    *)
(***************************************************************************)
\* cmp r8, r10 ; jl ; jg ; cmp r9, r11 ; jl ; jg
limb_compare(go_left_path, go_right_path) ==
    <<Ins("cmp_rr", "r8", "r10"),
      Ins("jl", go_left_path, "dyn"),
      Ins("jg", go_right_path, "dyn"),
      Ins("cmp_rr", "r9", "r11"),
      Ins("jl", go_left_path, "dyn"),
      Ins("jg", go_right_path, "dyn")>>

\* --- Traversal Logic ---
traversal(go_left_path, left_target, go_right_path, right_target) ==
    <<Def(go_left_path), Ins("jmp", left_target, "dyn"),
      Def(go_right_path), Ins("jmp", right_target, "dyn")>>

\* build_asm_scalar comparing the first limb only
build_asm_scalar_block_one_limb(st, node, not_found_label) ==
    LET e1 == label_entry(st, node.key)
        self_label == e1.label
        e2 == new_dynamic_label(e1.st)
        found_label == e2.label
        e3 == new_dynamic_label(e2.st)
        go_left_path == e3.label
        e4 == new_dynamic_label(e3.st)
        go_right_path == e4.label
        node_key_part1 == from_le_bytes(SubSeq(node.key, 1, 8))
        e5 == child_label(e4.st, node.left, not_found_label)
        e6 == child_label(e5.st, node.right, not_found_label)
        s7 == dynasm(e6.st,
                <<Def(self_label),
                  Ins("load_q", "r8", 0),
                  Ins("mov_r_imm64", "r10", node_key_part1),
                  Ins("cmp_rr", "r8", "r10"),
                  Ins("jl", go_left_path, "dyn"),
                  Ins("jg", go_right_path, "dyn"),
                  Ins("jmp", found_label, "dyn")>>
                \o traversal(go_left_path, e5.label, go_right_path, e6.label)
                \o found_block(node, found_label))
    IN  [s7 EXCEPT !.stack = ChildCalls(node) \o @]

\* build_asm_scalar up to its recursive calls: the whole block of one node
build_asm_scalar_block(st, node, not_found_label) ==
    LET e1 == label_entry(st, node.key)
        self_label == e1.label
        e2 == new_dynamic_label(e1.st)
        found_label == e2.label
        e3 == new_dynamic_label(e2.st)
        go_left_path == e3.label
        e4 == new_dynamic_label(e3.st)
        go_right_path == e4.label
        node_key_part1 == from_le_bytes(SubSeq(node.key, 1, 8))
        node_key_part2 == from_le_bytes(SubSeq(node.key, 9, 16))
        e5 == child_label(e4.st, node.left, not_found_label)
        e6 == child_label(e5.st, node.right, not_found_label)
        s7 == dynasm(e6.st,
                <<Def(self_label),
                  Ins("load_q", "r8", 0),
                  Ins("load_q", "r9", 8),
                  Ins("mov_r_imm64", "r10", node_key_part1),
                  Ins("mov_r_imm64", "r11", node_key_part2)>>
                \o limb_compare(go_left_path, go_right_path)
                \o <<Ins("jmp", found_label, "dyn")>>
                \o traversal(go_left_path, e5.label, go_right_path, e6.label)
                \o found_block(node, found_label))
    IN  [s7 EXCEPT !.stack = ChildCalls(node) \o @]

RECURSIVE build_asm_scalar(_, _)
build_asm_scalar(st, not_found_label) ==
    IF st.stack = <<>> THEN st
    ELSE build_asm_scalar(
            build_asm_scalar_block([st EXCEPT !.stack = Tail(@)],
                                   Head(st.stack).node, not_found_label),
            not_found_label)

\* compile_scalar emitting the not-found block only for a tree with a root
compile_scalar_epilogue_in_branch(root) ==
    LET ops == Assembler_new
        start == offset(ops)
        e == new_dynamic_label(ops)
        not_found_label == e.label
        s1 == build_asm_scalar(RootCall(e.st, root), not_found_label)
        s2 == IF root # None THEN dynasm(s1, not_found_block(not_found_label)) ELSE s1
    IN  Artifact(s2, start, not_found_label)

compile_scalar(root) ==
    LET ops == Assembler_new
        start == offset(ops)
        e == new_dynamic_label(ops)
        not_found_label == e.label
        s1 == build_asm_scalar(RootCall(e.st, root), not_found_label)
        s2 == dynasm(s1, not_found_block(not_found_label))
    IN  Artifact(s2, start, not_found_label)

(***************************************************************************)
(* jit_sse.rs: the vector-equality strategy for [u8; 16] keys.             *)
(***************************************************************************)
\* build_asm_sse testing the byte mask against 0xFF instead of 0xFFFF
build_asm_sse_block_short_mask(st, node, not_found_label) ==
    LET e1 == label_entry(st, node.key)
        self_label == e1.label
        e2 == new_dynamic_label(e1.st)
        found_label == e2.label
        e3 == new_dynamic_label(e2.st)
        go_left_path == e3.label
        e4 == new_dynamic_label(e3.st)
        go_right_path == e4.label
        node_key_part1 == from_le_bytes(SubSeq(node.key, 1, 8))
        node_key_part2 == from_le_bytes(SubSeq(node.key, 9, 16))
        e5 == child_label(e4.st, node.left, not_found_label)
        e6 == child_label(e5.st, node.right, not_found_label)
        s7 == dynasm(e6.st,
                <<Def(self_label),
                  Ins("movups_load", "xmm0", 0),
                  Ins("mov_r_imm64", "r10", node_key_part1),
                  Ins("mov_r_imm64", "r11", node_key_part2),
                  Ins("movq_xmm_r", "xmm1", "r10"),
                  Ins("pinsrq_1", "xmm1", "r11"),
                  Ins("pcmpeqb", "xmm0", "xmm1"),
                  Ins("pmovmskb", "eax", "xmm0"),
                  Ins("cmp_eax_imm", 255, 0),
                  Ins("jne", "check_ordering", "fwd"),
                  Ins("jmp", found_label, "dyn"),
                  Local("check_ordering"),
                  Ins("load_q", "r8", 0),
                  Ins("load_q", "r9", 8)>>
                \o limb_compare(go_left_path, go_right_path)
                \o traversal(go_left_path, e5.label, go_right_path, e6.label)
                \o found_block(node, found_label))
    IN  [s7 EXCEPT !.stack = ChildCalls(node) \o @]

\* build_asm_sse without the jmp to found_label after the mask test
build_asm_sse_block_no_found_jump(st, node, not_found_label) ==
    LET e1 == label_entry(st, node.key)
        self_label == e1.label
        e2 == new_dynamic_label(e1.st)
        found_label == e2.label
        e3 == new_dynamic_label(e2.st)
        go_left_path == e3.label
        e4 == new_dynamic_label(e3.st)
        go_right_path == e4.label
        node_key_part1 == from_le_bytes(SubSeq(node.key, 1, 8))
        node_key_part2 == from_le_bytes(SubSeq(node.key, 9, 16))
        e5 == child_label(e4.st, node.left, not_found_label)
        e6 == child_label(e5.st, node.right, not_found_label)
        s7 == dynasm(e6.st,
                <<Def(self_label),
                  Ins("movups_load", "xmm0", 0),
                  Ins("mov_r_imm64", "r10", node_key_part1),
                  Ins("mov_r_imm64", "r11", node_key_part2),
                  Ins("movq_xmm_r", "xmm1", "r10"),
                  Ins("pinsrq_1", "xmm1", "r11"),
                  Ins("pcmpeqb", "xmm0", "xmm1"),
                  Ins("pmovmskb", "eax", "xmm0"),
                  Ins("cmp_eax_imm", 65535, 0),
                  Ins("jne", "check_ordering", "fwd"),
                  Local("check_ordering"),
                  Ins("load_q", "r8", 0),
                  Ins("load_q", "r9", 8)>>
                \o limb_compare(go_left_path, go_right_path)
                \o traversal(go_left_path, e5.label, go_right_path, e6.label)
                \o found_block(node, found_label))
    IN  [s7 EXCEPT !.stack = ChildCalls(node) \o @]

\* build_asm_sse up to its recursive calls: the whole block of one node
build_asm_sse_block(st, node, not_found_label) ==
    LET e1 == label_entry(st, node.key)
        self_label == e1.label
        e2 == new_dynamic_label(e1.st)
        found_label == e2.label
        e3 == new_dynamic_label(e2.st)
        go_left_path == e3.label
        e4 == new_dynamic_label(e3.st)
        go_right_path == e4.label
        node_key_part1 == from_le_bytes(SubSeq(node.key, 1, 8))
        node_key_part2 == from_le_bytes(SubSeq(node.key, 9, 16))
        e5 == child_label(e4.st, node.left, not_found_label)
        e6 == child_label(e5.st, node.right, not_found_label)
        s7 == dynasm(e6.st,
                <<Def(self_label),
                  Ins("movups_load", "xmm0", 0),
                  Ins("mov_r_imm64", "r10", node_key_part1),
                  Ins("mov_r_imm64", "r11", node_key_part2),
                  Ins("movq_xmm_r", "xmm1", "r10"),
                  Ins("pinsrq_1", "xmm1", "r11"),
                  Ins("pcmpeqb", "xmm0", "xmm1"),
                  Ins("pmovmskb", "eax", "xmm0"),
                  Ins("cmp_eax_imm", 65535, 0),
                  Ins("jne", "check_ordering", "fwd"),
                  Ins("jmp", found_label, "dyn"),
                  Local("check_ordering"),
                  Ins("load_q", "r8", 0),
                  Ins("load_q", "r9", 8)>>
                \o limb_compare(go_left_path, go_right_path)
                \o traversal(go_left_path, e5.label, go_right_path, e6.label)
                \o found_block(node, found_label))
    IN  [s7 EXCEPT !.stack = ChildCalls(node) \o @]

RECURSIVE build_asm_sse(_, _)
build_asm_sse(st, not_found_label) ==
    IF st.stack = <<>> THEN st
    ELSE build_asm_sse(
            build_asm_sse_block([st EXCEPT !.stack = Tail(@)],
                                Head(st.stack).node, not_found_label),
            not_found_label)

\* compile_sse capturing the entry offset after the node blocks are emitted
compile_sse_late_start(root) ==
    LET ops == Assembler_new
        e == new_dynamic_label(ops)
        not_found_label == e.label
        s1 == build_asm_sse(RootCall(e.st, root), not_found_label)
        start == offset(s1)
        s2 == dynasm(s1, not_found_block(not_found_label))
    IN  Artifact(s2, start, not_found_label)

compile_sse(root) ==
    LET ops == Assembler_new
        start == offset(ops)
        e == new_dynamic_label(ops)
        not_found_label == e.label
        s1 == build_asm_sse(RootCall(e.st, root), not_found_label)
        s2 == dynasm(s1, not_found_block(not_found_label))
    IN  Artifact(s2, start, not_found_label)

(***************************************************************************)
(* Execution of a finalized buffer: the x86-64 instructions the compilers  *)
(* emit.  regs holds the registers and the two conditions the branches     *)
(* read: zf (ZF) and lt (SF # OF).                                         *)
(***************************************************************************)
\* the offset the (first) definition of a dynamic label is bound to
LabelOffset(a, label) ==
    LET i == CHOOSE j \in 1..Len(a.binds) :
                 /\ a.binds[j][1] = label
                 /\ \A m \in 1..Len(a.binds) : a.binds[m][1] = label => j <= m
    IN  a.binds[i][2]

\* >name: the next definition of the local label after the branch at pc
LocalOffset(a, name, pc) ==
    LET c == {a.locals[j][2] : j \in {m \in 1..Len(a.locals) :
                  a.locals[m][1] = name /\ a.locals[m][2] > pc}}
    IN  CHOOSE o \in c : \A q \in c : o <= q

BranchTarget(a, ins, pc) ==
    IF ins.b = "dyn" THEN LabelOffset(a, ins.a) ELSE LocalOffset(a, ins.a, pc)

Taken(ins, regs) ==
    CASE ins.op = "je" -> regs.zf
      [] ins.op = "jne" -> ~regs.zf
      [] ins.op = "jl" -> regs.lt
      [] ins.op = "jg" -> ~regs.zf /\ ~regs.lt
      [] ins.op = "jmp" -> TRUE

\* pmovmskb: bit i of the mask is the top bit of byte lane i
MaskBit(i) == IF i = 0 THEN 1 ELSE 2 ^ i

RECURSIVE movmsk(_, _)
movmsk(x, i) ==
    IF i > 16 THEN 0
    ELSE (IF x[i] >= 128 THEN MaskBit(i - 1) ELSE 0) + movmsk(x, i + 1)

Execute(ins, regs, mem) ==
    CASE ins.op = "cmp_edi_imm" ->
            [regs EXCEPT !.zf = (regs.rdi = ins.a), !.lt = (regs.rdi < ins.a)]
      [] ins.op = "mov_rax_imm" -> [regs EXCEPT !.rax = ins.a]
      [] ins.op = "load_q" ->
            [regs EXCEPT ![ins.a] = from_le_bytes(SubSeq(mem, ins.b + 1, ins.b + 8))]
      [] ins.op = "mov_r_imm64" -> [regs EXCEPT ![ins.a] = ins.b]
      [] ins.op = "cmp_rr" ->
            [regs EXCEPT !.zf = (regs[ins.a] = regs[ins.b]),
                         !.lt = slt64(regs[ins.a], regs[ins.b])]
      [] ins.op = "movups_load" -> [regs EXCEPT ![ins.a] = SubSeq(mem, 1, 16)]
      [] ins.op = "movq_xmm_r" -> [regs EXCEPT ![ins.a] = to_le_bytes(regs[ins.b]) \o Z8]
      [] ins.op = "pinsrq_1" ->
            [regs EXCEPT ![ins.a] = SubSeq(regs[ins.a], 1, 8) \o to_le_bytes(regs[ins.b])]
      [] ins.op = "pcmpeqb" ->
            [regs EXCEPT ![ins.a] =
                [i \in 1..16 |-> IF regs[ins.a][i] = regs[ins.b][i] THEN 255 ELSE 0]]
      [] ins.op = "pmovmskb" -> [regs EXCEPT !.rax = movmsk(regs[ins.b], 1)]
      [] ins.op = "cmp_eax_imm" ->
            [regs EXCEPT !.zf = (regs.rax = ins.a), !.lt = (regs.rax < ins.a)]

\* runs from offset pc to a ret; trace is the offsets executed so far
RECURSIVE Run(_, _, _, _, _)
Run(a, pc, regs, mem, trace) ==
    IF Len(trace) >= MaxSteps THEN [halt |-> "fuel", eax |-> 0, trace |-> trace]
    ELSE IF pc >= Len(a.code) THEN [halt |-> "fault", eax |-> 0, trace |-> trace]
    ELSE LET ins == a.code[pc + 1]
             t2 == Append(trace, pc)
         IN  IF ins.op = "ret" THEN [halt |-> "ret", eax |-> regs.rax, trace |-> t2]
             ELSE IF ins.op \in Jumps
             THEN Run(a, IF Taken(ins, regs) THEN BranchTarget(a, ins, pc) ELSE pc + 1,
                      regs, mem, t2)
             ELSE Run(a, pc + 1, Execute(ins, regs, mem), mem, t2)

InitRegs ==
    [rdi |-> 0, rax |-> 0, r8 |-> Z8, r9 |-> Z8, r10 |-> Z8, r11 |-> Z8,
     xmm0 |-> Z8 \o Z8, xmm1 |-> Z8 \o Z8, zf |-> FALSE, lt |-> FALSE]

\* unsafe { jitted_fn(key) } for i32 keys: the key is passed in edi.
\* unsafe { jitted_fn(key.as_ptr()) } for [u8; 16] keys: rdi points to the
\* 16 bytes, which are the memory the loads read.
call(a, kt, key) ==
    IF kt = "i32"
    THEN Run(a, a.start, [InitRegs EXCEPT !.rdi = key], <<>>, <<>>)
    ELSE Run(a, a.start, InitRegs, key, <<>>)

Strategies(kt) == IF kt = "i32" THEN {"compile"} ELSE {"compile_scalar", "compile_sse"}

compile_with(s, root) ==
    CASE s = "compile" -> compile(root)
      [] s = "compile_scalar" -> compile_scalar(root)
      [] s = "compile_sse" -> compile_sse(root)

(***************************************************************************)
(* The program: build a tree by insert calls, compile it, call the entry   *)
(* points (main.rs and the tests of jit_sse.rs run in this order).         *)
(***************************************************************************)
NoFn == [x \in {} |-> 0]

Init ==
    /\ K \in KeyTypes
    /\ tree = None
    /\ shadow = NoFn
    /\ art = NoFn
    /\ arg = None
    /\ result = NoFn

Insert(key, value) ==
    /\ DOMAIN art = {}
    /\ key \in TreeKeys(tree) \/ Len(pre_order_rec(tree)) < MaxNodes
    /\ tree' = insert_rec(K, tree, key, value)
    /\ shadow' = (key :> value) @@ shadow
    /\ UNCHANGED <<K, art, arg, result>>

\* let (_buf, jitted_fn) = <strategy>(&tree.root)
Compile(s) ==
    /\ s \notin DOMAIN art
    /\ art' = (s :> compile_with(s, tree)) @@ art
    /\ UNCHANGED <<K, tree, shadow, arg, result>>

\* one lookup key run through the compiled entry points
Call(key) ==
    /\ arg = None
    /\ DOMAIN art = Strategies(K)
    /\ \A s \in DOMAIN art : art[s].status = "ok"
    /\ arg' = Some(key)
    /\ result' = [s \in DOMAIN art |-> call(art[s], K, key)]
    /\ UNCHANGED <<K, tree, shadow, art>>

Next ==
    \/ \E key \in KeysOf(K), value \in Values : Insert(key, value)
    \/ \E s \in Strategies(K) : Compile(s)
    \/ \E key \in InputsOf(K) : Call(key)

Spec == Init /\ [][Next]_vars

(***************************************************************************)
(* Properties.                                                             *)
(***************************************************************************)
Called == arg # None
Input == arg[1]
NodeCount == Len(pre_order_rec(tree))
Present(key) == key \in TreeKeys(tree)
Stored(key) == unwrap(lookup(K, tree, key))
Returns(s, v) == result[s].halt = "ret" /\ result[s].eax = v
Strategies128 == {"compile_scalar", "compile_sse"}

\* C1: for an i32 tree built by insert calls and a key present in it, the
\* entry point of jit::compile returns the value the tree stores for the key
C1_ScalarLookupEquivalence ==
    (K = "i32" /\ Called /\ Present(Input)) => Returns("compile", Stored(Input))

\* a key two levels below the root of a six-node tree is found
C1_Witness ==
    /\ K = "i32" /\ Called /\ NodeCount = 6
    /\ Present(Input)
    /\ Input # unwrap(tree).key
    /\ (unwrap(tree).left = None \/ Input # unwrap(unwrap(tree).left).key)
    /\ (unwrap(tree).right = None \/ Input # unwrap(unwrap(tree).right).key)
    /\ Returns("compile", 20)

\* C2: for a [u8; 16] tree built by insert calls and a key present in it, the
\* entry points of compile_scalar and compile_sse each return the value the
\* tree stores for the key
C2_LookupEquivalence128 ==
    (K = "u8x16" /\ Called /\ Present(Input)) =>
        \A s \in Strategies128 : Returns(s, Stored(Input))

\* C3: for a key that is not in the tree every compiled entry point returns
\* -1; a result other than -1 is the value stored for the input key
C3_AbsenceEquivalence ==
    Called =>
        \A s \in DOMAIN result :
            /\ result[s].halt = "ret"
            /\ ~Present(Input) => result[s].eax = -1
            /\ result[s].eax # -1 => Present(Input) /\ result[s].eax = Stored(Input)

\* an absent key that shares its first limb with keys of the tree
C3_Witness ==
    /\ K = "u8x16" /\ Called /\ NodeCount >= 3
    /\ ~Present(Input)
    /\ \E k \in TreeKeys(tree) : SubSeq(k, 1, 8) = SubSeq(Input, 1, 8)
    /\ \A s \in Strategies128 : Returns(s, -1)

\* C4: on the same tree and the same input key, present or not, the entry
\* points of compile_scalar and compile_sse return the same result
C4_StrategyAgreement ==
    (K = "u8x16" /\ Called) =>
        /\ result["compile_scalar"].halt = result["compile_sse"].halt
        /\ result["compile_scalar"].eax = result["compile_sse"].eax

\* both strategies find a key below the root
C4_Witness ==
    /\ K = "u8x16" /\ Called /\ NodeCount >= 3
    /\ Present(Input) /\ Input # unwrap(tree).key
    /\ Returns("compile_scalar", 20) /\ Returns("compile_sse", 20)

\* the trees of the 128-bit scenario: A and B inserted in either order
TreeAB == insert_rec("u8x16", insert_rec("u8x16", None, KeyA, 10), KeyB, 20)
TreeBA == insert_rec("u8x16", insert_rec("u8x16", None, KeyB, 20), KeyA, 10)

\* C5: after inserting A with 10 and B with 20 in either order, both 128-bit
\* entry points return 10 for A, 20 for B and -1 for any other key
C5_Scenario128 ==
    (K = "u8x16" /\ Called /\ tree \in {TreeAB, TreeBA}) =>
        \A s \in Strategies128 :
            Returns(s, IF Input = KeyA THEN 10 ELSE IF Input = KeyB THEN 20 ELSE -1)

\* C6: compiling the empty tree completes, and the entry point returns -1
\* for every input key, with each of the three strategies
C6_EmptyTree ==
    tree = None =>
        /\ \A s \in DOMAIN art : art[s].status = "ok"
        /\ Called => \A s \in DOMAIN result : Returns(s, -1)

C6_Witness ==
    /\ K = "u8x16" /\ tree = None /\ Called
    /\ \A s \in Strategies128 : Returns(s, -1)

\* C7: the tree is a map: lookup of a key never inserted is None, lookup of
\* an inserted key is the value of its most recent insert, and the tree has
\* one node per distinct key inserted
C7_TreeIsMap ==
    /\ \A k \in KeysOf(K) :
          lookup(K, tree, k) = IF k \in DOMAIN shadow THEN Some(shadow[k]) ELSE None
    /\ NodeCount = Cardinality(DOMAIN shadow)

\* the first key inserted was moved below the root by a rotation and then
\* given a new value
C7_Witness ==
    /\ K = "i32" /\ NodeCount = 3
    /\ unwrap(tree).key = 5
    /\ unwrap(tree).value = 10
    /\ unwrap(unwrap(tree).left).key = 3 /\ unwrap(unwrap(tree).left).value = 20
    /\ unwrap(unwrap(tree).right).key = 7 /\ unwrap(unwrap(tree).right).value = 10

RECURSIVE IsSearchTree(_, _)
IsSearchTree(kt, link) ==
    link = None \/
    LET n == unwrap(link) IN
    /\ \A k \in TreeKeys(n.left) : cmp(kt, k, n.key) = "Less"
    /\ \A k \in TreeKeys(n.right) : cmp(kt, k, n.key) = "Greater"
    /\ IsSearchTree(kt, n.left)
    /\ IsSearchTree(kt, n.right)

\* C8: after any sequence of insert calls the keys of the tree are unique,
\* every key of a left subtree is less than the node's key and every key of
\* a right subtree is greater
C8_SearchTree ==
    /\ IsSearchTree(K, tree)
    /\ Cardinality(TreeKeys(tree)) = NodeCount

\* the tree 7(3(-7, 5), 8(-, 9)), which 3 -7 8 7 9 5 builds by a double
\* rotation that moves 5 from under 7 to under 3
C8_Witness ==
    /\ K = "i32" /\ NodeCount = 6
    /\ unwrap(tree).key = 7
    /\ unwrap(unwrap(tree).left).key = 3
    /\ unwrap(unwrap(unwrap(tree).left).right).key = 5
    /\ unwrap(unwrap(tree).right).key = 8
    /\ unwrap(unwrap(tree).right).left = None

\* C9: in every compilation each label handed out is bound exactly once,
\* every label a branch refers to is bound, finalize succeeds, and two
\* lookups of one key in the label table return the same label
C9_LabelDiscipline ==
    \A s \in DOMAIN art :
        LET a == art[s] IN
        /\ \A l \in 0..(a.nlabels - 1) : BindCount(a, l) = 1
        /\ \A l \in Referenced(a) : l \in 0..(a.nlabels - 1)
        /\ a.status = "ok"
        /\ \A i, j \in 1..Len(a.log) :
              a.log[i][1] = a.log[j][1] => a.log[i][2] = a.log[j][2]
        /\ \A k \in DOMAIN a.labels : BindCount(a, a.labels[k]) = 1

\* a compilation in which a child's label was looked up twice: by the
\* parent's branch and by the child's own block
C9_Witness ==
    /\ DOMAIN art = Strategies128 /\ NodeCount >= 4
    /\ \A s \in DOMAIN art :
          \E i, j \in 1..Len(art[s].log) :
              i < j /\ art[s].log[i][1] = art[s].log[j][1]

IsSentinelLoad(ins) == ins.op = "mov_rax_imm" /\ ins.a = -1

\* C10: the entry offset is the offset before any emission; it is where the
\* root's label is bound when the tree has a root and where the not-found
\* block is bound when it has none; the not-found block is emitted once,
\* after every node block
C10_EntryPoint ==
    \A s \in DOMAIN art :
        LET a == art[s]
            nf == LabelOffset(a, a.not_found_label)
        IN  /\ a.start = 0
            /\ tree # None => a.start = LabelOffset(a, a.labels[unwrap(tree).key])
            /\ tree = None => a.start = nf
            /\ BindCount(a, a.not_found_label) = 1
            /\ nf = Len(a.code) - 2
            /\ IsSentinelLoad(a.code[nf + 1])
            /\ a.code[nf + 2].op = "ret"
            /\ \A i \in 1..Len(a.binds) : a.binds[i][2] <= nf
            /\ Cardinality({i \in 1..Len(a.code) : IsSentinelLoad(a.code[i])}) = 1

C10_Witness ==
    /\ DOMAIN art = Strategies128 /\ NodeCount >= 3
    /\ \A s \in DOMAIN art : art[s].start = 0 /\ Len(art[s].code) > 40

\* where the block of the node with the given key starts, and the offsets
\* its first branch of a kind leads to
BlockStart(a, key) == LabelOffset(a, a.labels[key])
FirstTarget(a, from, op) ==
    LET j == CHOOSE i \in (from + 1)..Len(a.code) :
                 /\ a.code[i].op = op
                 /\ \A m \in (from + 1)..(i - 1) : a.code[m].op # op
    IN  a.code[j].a
FoundOffset(a, s, key) ==
    LabelOffset(a, FirstTarget(a, BlockStart(a, key), IF s = "compile" THEN "je" ELSE "jmp"))
GoLeftOffset(a, key) == LabelOffset(a, FirstTarget(a, BlockStart(a, key), "jl"))
GoRightOffset(a, key) == LabelOffset(a, FirstTarget(a, BlockStart(a, key), "jg"))
InTrace(r, o) == \E i \in 1..Len(r.trace) : r.trace[i] = o

\* C11: for an input key x and a node key n, the block the two-limb strategy
\* emits for n goes to found exactly when x = n, to go-left exactly when x is
\* less than n in the tree's key order and to go-right exactly when x is
\* greater than n in the tree's key order
C11_DirectionAgreement ==
    (K = "u8x16" /\ Called) =>
        LET a == art["compile_scalar"]
            r == result["compile_scalar"]
        IN  \A n \in TreeKeys(tree) :
                InTrace(r, BlockStart(a, n)) =>
                    /\ InTrace(r, FoundOffset(a, "compile_scalar", n))
                          <=> cmp(K, Input, n) = "Equal"
                    /\ InTrace(r, GoLeftOffset(a, n)) <=> cmp(K, Input, n) = "Less"
                    /\ InTrace(r, GoRightOffset(a, n)) <=> cmp(K, Input, n) = "Greater"

\* the keys below a node
Below(n) == TreeKeys(n.left) \cup TreeKeys(n.right)
NodesOf(link) == {pre_order_rec(link)[i] : i \in 1..Len(pre_order_rec(link))}

\* the node blocks start in pre-order: node, left subtree, right subtree
BlocksInPreOrder(a) ==
    LET po == pre_order_rec(tree) IN
    \A i \in 1..(Len(po) - 1) : BlockStart(a, po[i].key) < BlockStart(a, po[i + 1].key)

\* a node's found epilogue comes after everything emitted for its subtrees
FoundAfterSubtrees(a, s) ==
    \A n \in NodesOf(tree) : \A d \in Below(n) :
        /\ BlockStart(a, d) < FoundOffset(a, s, n.key)
        /\ FoundOffset(a, s, d) < FoundOffset(a, s, n.key)

\* a node's found epilogue closes the node's own block, ahead of the blocks
\* of its subtrees
FoundBeforeSubtrees(a, s) ==
    \A n \in NodesOf(tree) :
        /\ BlockStart(a, n.key) < FoundOffset(a, s, n.key)
        /\ \A d \in Below(n) : FoundOffset(a, s, n.key) < BlockStart(a, d)

\* C12 as claimed: in all three build functions the node blocks are emitted
\* in pre-order and a node's found epilogue is appended only after the blocks
\* of both of its subtrees
C12_EpilogueAfterSubtrees ==
    \A s \in DOMAIN art : BlocksInPreOrder(art[s]) /\ FoundAfterSubtrees(art[s], s)

\* C12 as amended: the node blocks are emitted in pre-order by all three
\* build functions; build_asm appends a node's found epilogue after the
\* blocks of both subtrees, build_asm_scalar and build_asm_sse emit it at the
\* end of the node's own block, before the blocks of its subtrees
C12_EmissionOrder ==
    \A s \in DOMAIN art :
        /\ BlocksInPreOrder(art[s])
        /\ s = "compile" => FoundAfterSubtrees(art[s], s)
        /\ s \in Strategies128 => FoundBeforeSubtrees(art[s], s)

\* both 128-bit strategies have compiled a tree whose root has two children
\* and a grandchild
C12_Witness ==
    /\ DOMAIN art = Strategies128 /\ NodeCount = 5
    /\ unwrap(tree).left # None /\ unwrap(tree).right # None
    /\ \A s \in DOMAIN art :
          FoundOffset(art[s], s, unwrap(tree).key)
              < BlockStart(art[s], unwrap(unwrap(tree).left).key)

\* the height of a subtree, counted from its shape
RECURSIVE TrueHeight(_)
TrueHeight(link) ==
    IF link = None THEN 0
    ELSE 1 + max(TrueHeight(unwrap(link).left), TrueHeight(unwrap(link).right))

\* C13: after any sequence of insert calls the heights of the two subtrees
\* of every node differ by at most 1 and the node's height field is 1 + the
\* larger true height of its children; no insert call makes balance or a
\* rotation unwrap a missing child
C13_Balanced ==
    /\ \A n \in NodesOf(tree) :
          /\ TrueHeight(n.left) - TrueHeight(n.right) \in {-1, 0, 1}
          /\ n.height = 1 + max(TrueHeight(n.left), TrueHeight(n.right))
    /\ \A key \in KeysOf(K), value \in Values :
          \A b \in BalanceCalls(K, tree, key, value) : UnwrapsSome(b)

\* a tree of five nodes in which one more insert makes balance run a double
\* rotation (three unwraps)
C13_Witness ==
    /\ K = "u8x16" /\ NodeCount = 5
    /\ \E key \in KeysOf(K), value \in Values :
          \E b \in BalanceCalls(K, tree, key, value) :
              /\ balance_factor(b) < -1
              /\ balance_factor(unwrap(b.right)) > 0
              /\ unwrap(b.right).left # None

\* the node blocks a call entered, as the keys of their nodes in the order
\* entered
IsBlockStart(a, o) == \E k \in DOMAIN a.labels : BlockStart(a, k) = o
KeyAt(a, o) == CHOOSE k \in DOMAIN a.labels : BlockStart(a, k) = o
BlocksEntered(a, r) ==
    LET starts == SelectSeq(r.trace, LAMBDA o : IsBlockStart(a, o))
    IN  [i \in 1..Len(starts) |-> KeyAt(a, starts[i])]

NodeWithKey(key) == CHOOSE n \in NodesOf(tree) : n.key = key
IsChildOf(k, parent) ==
    LET n == NodeWithKey(parent) IN
    \/ n.left # None /\ unwrap(n.left).key = k
    \/ n.right # None /\ unwrap(n.right).key = k

\* execution runs from a jg that is not taken into an offset a label is
\* bound to: in build_asm_sse the fall-through after the second limb compare
FallsThroughToLabel(a, r) ==
    \E i \in 1..(Len(r.trace) - 1) :
        /\ a.code[r.trace[i] + 1].op = "jg"
        /\ r.trace[i + 1] = r.trace[i] + 1
        /\ \E j \in 1..Len(a.binds) : a.binds[j][2] = r.trace[i + 1]

\* C14: every call through an entry point returns; it enters at most
\* height(tree) node blocks, which are the root's block and then, each time,
\* the block of a child of the node before; it ends in the found epilogue of
\* the last node entered or in the not-found block; the vector-equality code
\* never falls through the second limb compare
C14_Termination ==
    Called =>
        \A s \in DOMAIN result :
            LET a == art[s]
                r == result[s]
                v == BlocksEntered(a, r)
                last == r.trace[Len(r.trace) - 1]
            IN  /\ r.halt = "ret"
                /\ Len(v) <= TrueHeight(tree)
                /\ tree # None => Len(v) >= 1 /\ v[1] = unwrap(tree).key
                /\ \A i \in 1..(Len(v) - 1) : IsChildOf(v[i + 1], v[i])
                /\ \/ last = LabelOffset(a, a.not_found_label)
                   \/ Len(v) >= 1 /\ last = FoundOffset(a, s, v[Len(v)])
                /\ s = "compile_sse" => ~FallsThroughToLabel(a, r)

\* a call that walks three node blocks of the vector-equality code and
\* finds its key in the third
C14_Witness ==
    /\ K = "u8x16" /\ Called
    /\ TrueHeight(tree) = 3
    /\ Len(BlocksEntered(art["compile_sse"], result["compile_sse"])) = 3
    /\ Present(Input)
    /\ Returns("compile_sse", Stored(Input))
====
